---- MODULE Spec2Model ----
(***************************************************************************)
(* State-machine model of scratch/dgw/tst_new_reflection_manager.py: a     *)
(* linear script that builds a synthetic experiment, perturbs and restores *)
(* six model parameterisations, simulates observations, and compares the   *)
(* gradients of the new reflection manager / target with the old ones.     *)
(*                                                                         *)
(* Units.  Parameter values and gradients are integers; one unit of a      *)
(* gradient is the tolerance of approx_equal.  Angles of the scan are in   *)
(* microradians.  Cell lengths are in 0.1 Angstrom, cell angles in 0.1     *)
(* degree.  Unit-cell parameters (1e5 times G-star) are in units of 0.01.  *)
(***************************************************************************)
EXTENDS Integers, Sequences, FiniteSets, TLC

\* ------------------------------------------------------------------ bounds
\* Number of Miller indices generated for each crystal.
MaxIdx == 6
\* How far from either end of its table a manager may leave a row out.
RejectSpan == 1
\* Number of lines the user may type into the interactive console.
MaxConsoleLines == 2

\* ------------------------------------------------------- program constants
\* for i in range(10): the rows printed before the gradient test.
PrintRows == 10
\* approx_equal's tolerance, the unit of the scan widths and the gradients.
Eps == 1
\* pi, and the width 0.1 * pi / 180., in microradians.
PiMicro == 3141593
WidthNominal == 1745

NoVal == 0 - 1

Abs(x) == IF x < 0 THEN -x ELSE x
Min(a, b) == IF a < b THEN a ELSE b

\* libtbx.test_utils.approx_equal on two numbers.
approx_equal(a, b) == Abs(a - b) <= Eps

\* ---------------------------------------------------------- python lists
\* The heap holds the script's list objects; a variable holds a reference
\* (an index of the heap), 0 when it is not bound yet.
ListNew(h, v) == <<Append(h, v), Len(h) + 1>>

\* A list(x) that hands back x itself instead of a copy.
ListAlias(h, r) == <<h, r>>

\* list(x): a new list object with the elements of x.
ListCopy(h, r) == <<Append(h, h[r]), Len(h) + 1>>

\* x[k] = v on the list object r (k counts from 1 here).
ListSetItem(h, r, k, v) == [h EXCEPT ![r] = [@ EXCEPT ![k] = v]]

\* A comprehension that adds the first shift to every element.
ZipAddFirst(xs, ys) == [k \in 1..Min(Len(xs), Len(ys)) |-> xs[k] + ys[1]]

\* [a + b for a, b in zip(xs, ys)]: zip stops at the shorter sequence.
ZipAdd(xs, ys) == [k \in 1..Min(Len(xs), Len(ys)) |-> xs[k] + ys[k]]

\* ------------------------------------------------------ parameterisations
ParamNames == {"det", "s0", "xl1o", "xl1uc", "xl2o", "xl2uc"}

RECURSIVE FreeOf(_, _)
FreeOf(vals, fixed) ==
  IF vals = <<>> THEN <<>>
  ELSE IF Head(fixed) THEN FreeOf(Tail(vals), Tail(fixed))
       ELSE <<Head(vals)>> \o FreeOf(Tail(vals), Tail(fixed))

\* get_param_vals: the values of the free parameters, as a new vector.
GetParamVals(p) == FreeOf(p.vals, p.fixed)

NumFree(p) == Len(GetParamVals(p))

RECURSIVE Spread(_, _, _)
Spread(vals, fixed, v) ==
  IF vals = <<>> THEN <<>>
  ELSE IF Head(fixed) THEN <<Head(vals)>> \o Spread(Tail(vals), Tail(fixed), v)
       ELSE <<Head(v)>> \o Spread(Tail(vals), Tail(fixed), Tail(v))

\* set_param_vals: the free parameters take the given values, in order.
SetParamVals(p, v) == [p EXCEPT !.vals = Spread(p.vals, p.fixed, v)]

\* set_fixed
SetFixed(p, fixed) == [p EXCEPT !.fixed = fixed]

\* The known shifts of the script.
DetShifts == <<2, 2, 2, 5, 5, 5>>
BeamShift == 2
OriShifts == <<2, 2, 2>>
CellShifts == <<1, 1, 1, 0, 0, 1>>

\* ------------------------------------------------------------- unit cells
\* A cell is <<a, b, c, alpha, beta, gamma>>; the model covers cells with
\* alpha = beta = 90 degrees and gamma of 90.0 or 90.1 degrees.
\* -cos(gamma) * 1e9
MinusCos(g) == IF g = 900 THEN 0 ELSE 1745328

\* (1 / sin(gamma)^2 - 1) * 1e9
CscExcess(g) == IF g = 900 THEN 0 ELSE 3046

\* 1e5 * num / (x * y * sin(gamma)^2) in units of 0.01, num scaled by 1e9
RecipTerm(num, x, y, g) ==
  LET q == num \div (x * y)
  IN  q + (q * CscExcess(g)) \div 1000000000

\* unit_cell(cell).fractionalization_matrix() -> symmetrize_reduce_enlarge
\* -> 1e5 * forward_independent_parameters(): the six independent elements
\* g00, g11, g22, g01, g02, g12 of the reciprocal metrical matrix.
UcForward(cell) ==
  LET a == cell[1]
      b == cell[2]
      c == cell[3]
      g == cell[6]
  IN  << RecipTerm(1000000000, a, a, g),
         RecipTerm(1000000000, b, b, g),
         1000000000 \div (c * c),
         RecipTerm(MinusCos(g), a, b, g),
         0,
         0 >>

CellChoices == { <<100, 100, 100, 900, 900, 900>>,
                 <<100, 120, 150, 900, 900, 900>> }

CellDomain == CellChoices \cup { ZipAdd(c, CellShifts) : c \in CellChoices }

\* The cell a unit-cell parameterisation composes from its parameter vector.
UcBackward(v) ==
  IF \E c \in CellDomain : UcForward(c) = v
  THEN CHOOSE c \in CellDomain : UcForward(c) = v
  ELSE <<>>

DistChoices == {100, 200}

\* ------------------------------------------------------------------ state
VARIABLES
  pc,            \* the statement the script is about to run
  exc,           \* line of the statement that raised, 0 while none has
  output,        \* what the script has printed
  console,       \* lines typed into the interactive console
  geometry,      \* the geometry the two setup_geometry.Extract calls drew
  myscan,        \* the scan object: the end of its sweep and its image width
  sweep_range,   \* myscan.get_oscillation_range(deg=False)
  im_width,      \* the image width
  experiments,   \* the experiment list
  models,        \* the detector distance and the two crystals' cells
  params,        \* the six parameterisation objects
  heap,          \* the list objects
  det_p_vals, s0_p_vals, p_vals, new_p_vals, X,   \* references to lists
  xlo_p_vals, xluc_p_vals,                        \* lists of references
  k,             \* position of the for loops over the two crystals
  obs_refs1, obs_refs2, obs_refs,   \* the simulated reflection lists
  tabs,          \* the reflection table objects
  reflections, old_reflections, new_matches,   \* references to tables
  refman,        \* the new reflection manager
  dX_dp, dY_dp, dPhi_dp,            \* gradient arrays, one per parameter
  old_refman,    \* the old reflection manager
  old_matches,   \* the old manager's list of matches
  i, j,          \* the loop variables of the gradient test
  it             \* the index the running for loop over rows hands out next

scriptVars == <<pc, exc, output, console>>
scanVars == <<geometry, myscan, sweep_range, im_width, experiments>>
paramVars == <<models, params, heap, det_p_vals, s0_p_vals, p_vals,
               new_p_vals, X, xlo_p_vals, xluc_p_vals, k>>

obsVars == <<obs_refs1, obs_refs2, obs_refs>>
newVars == <<tabs, reflections, old_reflections, new_matches, refman,
             dX_dp, dY_dp, dPhi_dp>>
oldVars == <<old_refman, old_matches>>
loopVars == <<i, j, it>>
reflVars == <<obsVars, newVars, oldVars, loopVars>>

vars == <<scriptVars, scanVars, paramVars, reflVars>>

NoParam == [vals |-> <<>>, fixed |-> <<>>]
NoManager == [table |-> 0, obs |-> <<>>, rejected |-> {}, predicted |-> FALSE,
              finalised |-> FALSE]

Init ==
  /\ pc = "make_scan"
  /\ exc = 0
  /\ output = <<>>
  /\ console = 0
  /\ sweep_range = <<>>
  /\ im_width = NoVal
  /\ experiments = <<>>
  /\ \E d \in DistChoices, c1 \in CellChoices, c2 \in CellChoices :
        geometry = [dist |-> d, cells |-> <<c1, c2>>]
  /\ models = geometry
  /\ myscan = [hi |-> NoVal, width |-> NoVal]
  /\ params = [n \in ParamNames |-> NoParam]
  /\ heap = <<>>
  /\ det_p_vals = 0 /\ s0_p_vals = 0 /\ p_vals = 0 /\ new_p_vals = 0 /\ X = 0
  /\ xlo_p_vals = <<>> /\ xluc_p_vals = <<>>
  /\ k = 0
  /\ obs_refs1 = <<>> /\ obs_refs2 = <<>> /\ obs_refs = <<>>
  /\ tabs = <<>>
  /\ reflections = 0 /\ old_reflections = 0 /\ new_matches = 0
  /\ refman = NoManager
  /\ dX_dp = <<>> /\ dY_dp = <<>> /\ dPhi_dp = <<>>
  /\ old_refman = NoManager
  /\ old_matches = <<>>
  /\ i = NoVal /\ j = NoVal /\ it = 0

\* An uncaught exception ends the script at the statement that raised it.
Raise(line) == pc' = "raised" /\ exc' = line

Goto(next) == pc' = next /\ exc' = exc

Echo(line) == output' = Append(output, line)

\* ------------------------------------------------------------------- scan
\* What the scan factory hands back for image_range (1, 1800) and an
\* oscillation of (0, 0.1) degrees: the upper end of the sweep and the image
\* width, computed in floating point by the scan model.
ScanOutcomes ==
  { [hi |-> PiMicro,     width |-> WidthNominal],
    [hi |-> PiMicro,     width |-> WidthNominal + Eps],
    [hi |-> PiMicro,     width |-> WidthNominal + Eps + Eps],
    [hi |-> PiMicro + 1, width |-> WidthNominal] }

MakeScan ==
  /\ pc = "make_scan"
  /\ \E o \in ScanOutcomes :
        /\ myscan' = o
        /\ sweep_range' = <<0, o.hi>>
        /\ im_width' = o.width
  /\ Goto("assert_sweep")
  /\ UNCHANGED <<output, console, geometry, experiments, paramVars, reflVars>>

\* assert sweep_range == (0., pi)
AssertSweep ==
  /\ pc = "assert_sweep"
  /\ IF sweep_range = <<0, PiMicro>> THEN Goto("assert_width") ELSE Raise(96)
  /\ UNCHANGED <<output, console, scanVars, paramVars, reflVars>>

\* A width check whose result is not asserted.
AssertWidthIgnored ==
  /\ pc = "assert_width"
  /\ Goto("experiments")
  /\ UNCHANGED <<output, console, scanVars, paramVars, reflVars>>

\* assert approx_equal(im_width, 0.1 * pi / 180.)
AssertWidth ==
  /\ pc = "assert_width"
  /\ IF approx_equal(im_width, WidthNominal)
     THEN Goto("experiments") ELSE Raise(97)
  /\ UNCHANGED <<output, console, scanVars, paramVars, reflVars>>

Experiment(xl) ==
  [beam |-> "mybeam", detector |-> "mydetector", goniometer |-> "mygonio",
   scan |-> "myscan", crystal |-> xl]

BuildExperiments ==
  /\ pc = "experiments"
  /\ experiments' = <<Experiment("crystal1"), Experiment("crystal2")>>
  /\ Goto("assert_detectors")
  /\ UNCHANGED <<output, console, geometry, myscan, sweep_range, im_width,
                 paramVars, reflVars>>

\* ExperimentList.detectors(): the distinct detector objects of the list.
Detectors(exps) == { exps[n].detector : n \in 1..Len(exps) }

\* assert len(experiments.detectors()) == 1
AssertDetectors ==
  /\ pc = "assert_detectors"
  /\ IF Cardinality(Detectors(experiments)) = 1
     THEN Goto("parameterise") ELSE Raise(108)
  /\ UNCHANGED <<output, console, scanVars, paramVars, reflVars>>

\* ------------------------------------------------- parameterise the models
\* Detector: distance, two shifts, three rotations.  Beam: two angles, the
\* first one fixed by set_fixed([True, False]).  Orientation: three angles.
\* Unit cell: the independent elements of the reciprocal metrical matrix.
Parameterisations(m) ==
  [n \in ParamNames |->
     CASE n = "det"   -> [vals |-> <<m.dist, 0, 0, 0, 0, 0>>,
                          fixed |-> [x \in 1..6 |-> FALSE]]
       [] n = "s0"    -> SetFixed([vals |-> <<0, 0>>, fixed |-> <<FALSE, FALSE>>],
                                  <<TRUE, FALSE>>)
       [] n = "xl1uc" -> [vals |-> UcForward(m.cells[1]),
                          fixed |-> [x \in 1..6 |-> FALSE]]
       [] n = "xl2uc" -> [vals |-> UcForward(m.cells[2]),
                          fixed |-> [x \in 1..6 |-> FALSE]]
       [] OTHER       -> [vals |-> <<0, 0, 0>>,
                          fixed |-> [x \in 1..3 |-> FALSE]]]

Parameterise ==
  /\ pc = "parameterise"
  /\ params' = Parameterisations(models)
  /\ Goto("shift_det")
  /\ UNCHANGED <<output, console, scanVars, models, heap, det_p_vals,
                 s0_p_vals, p_vals, new_p_vals, X, xlo_p_vals, xluc_p_vals, k,
                 reflVars>>

\* ------------------------------------------------ known parameter shifts
\* A parameterisation refuses a vector whose length is not its number of
\* free parameters.
Accepts(name, v) == Len(v) = NumFree(params[name])

\* det_p_vals = det_param.get_param_vals()
\* p_vals = [a + b for a, b in zip(det_p_vals, [2.0, 2.0, 2.0, 5., 5., 5.])]
\* det_param.set_param_vals(p_vals)
ShiftDetector ==
  /\ pc = "shift_det"
  /\ LET got == ListNew(heap, GetParamVals(params["det"]))
         new == ListNew(got[1], ZipAdd(got[1][got[2]], DetShifts))
         v   == new[1][new[2]]
     IN  /\ heap' = new[1]
         /\ det_p_vals' = got[2]
         /\ p_vals' = new[2]
         /\ IF Accepts("det", v)
            THEN /\ params' = [params EXCEPT !["det"] = SetParamVals(@, v)]
                 /\ models' = [models EXCEPT !.dist = v[1]]
                 /\ Goto("shift_beam")
            ELSE /\ UNCHANGED <<params, models>>
                 /\ Raise(138)
  /\ UNCHANGED <<output, console, scanVars, s0_p_vals, new_p_vals, X,
                 xlo_p_vals, xluc_p_vals, k, reflVars>>

\* s0_p_vals = s0_param.get_param_vals()
\* p_vals = list(s0_p_vals)
\* p_vals[0] += 2.
\* s0_param.set_param_vals(p_vals)
ShiftBeam ==
  /\ pc = "shift_beam"
  /\ LET got  == ListNew(heap, GetParamVals(params["s0"]))
         copy == ListCopy(got[1], got[2])
         h    == ListSetItem(copy[1], copy[2], 1, copy[1][copy[2]][1] + BeamShift)
         v    == h[copy[2]]
     IN  /\ heap' = h
         /\ s0_p_vals' = got[2]
         /\ p_vals' = copy[2]
         /\ IF Accepts("s0", v)
            THEN /\ params' = [params EXCEPT !["s0"] = SetParamVals(@, v)]
                 /\ Goto("shift_xlo")
            ELSE /\ UNCHANGED params
                 /\ Raise(144)
  /\ k' = 1
  /\ UNCHANGED <<output, console, scanVars, models, det_p_vals, new_p_vals, X,
                 xlo_p_vals, xluc_p_vals, reflVars>>

XloName(n) == IF n = 1 THEN "xl1o" ELSE "xl2o"
XlucName(n) == IF n = 1 THEN "xl1uc" ELSE "xl2uc"

\* for xlo in (xl1o_param, xl2o_param):
\*   p_vals = xlo.get_param_vals()
\*   xlo_p_vals.append(p_vals)
\*   new_p_vals = [a + b for a, b in zip(p_vals, [2., 2., 2.])]
\*   xlo.set_param_vals(new_p_vals)
ShiftOrientation ==
  /\ pc = "shift_xlo"
  /\ LET name == XloName(k)
         got  == ListNew(heap, GetParamVals(params[name]))
         new  == ListNew(got[1], ZipAdd(got[1][got[2]], OriShifts))
         v    == new[1][new[2]]
     IN  /\ heap' = new[1]
         /\ p_vals' = got[2]
         /\ xlo_p_vals' = Append(xlo_p_vals, got[2])
         /\ new_p_vals' = new[2]
         /\ IF Accepts(name, v)
            THEN /\ params' = [params EXCEPT ![name] = SetParamVals(@, v)]
                 /\ IF k = 2
                    THEN k' = 1 /\ Goto("shift_xluc")
                    ELSE k' = k + 1 /\ Goto("shift_xlo")
            ELSE /\ UNCHANGED <<params, k>>
                 /\ Raise(152)
  /\ UNCHANGED <<output, console, scanVars, models, det_p_vals, s0_p_vals, X,
                 xluc_p_vals, reflVars>>

\* for xluc, xl in ((xl1uc_param, crystal1), (xl2uc_param, crystal2)):
\*   p_vals = xluc.get_param_vals()
\*   xluc_p_vals.append(p_vals)
\*   cell_params = xl.get_unit_cell().parameters()
\*   cell_params = [a + b for a, b in zip(cell_params, [0.1, 0.1, 0.1, 0.0, 0.0, 0.1])]
\*   ... X = tuple([e * 1.e5 for e in S.forward_independent_parameters()])
\*   xluc.set_param_vals(X)
ShiftUnitCell ==
  /\ pc = "shift_xluc"
  /\ LET name == XlucName(k)
         got  == ListNew(heap, GetParamVals(params[name]))
         cell_params == ZipAdd(models.cells[k], CellShifts)
         new  == ListNew(got[1], UcForward(cell_params))
         v    == new[1][new[2]]
     IN  /\ heap' = new[1]
         /\ p_vals' = got[2]
         /\ xluc_p_vals' = Append(xluc_p_vals, got[2])
         /\ X' = new[2]
         /\ IF Accepts(name, v)
            THEN /\ params' = [params EXCEPT ![name] = SetParamVals(@, v)]
                 /\ models' = [models EXCEPT !.cells[k] = UcBackward(v)]
                 /\ IF k = 2
                    THEN k' = 0 /\ Goto("print_geometry")
                    ELSE k' = k + 1 /\ Goto("shift_xluc")
            ELSE /\ UNCHANGED <<params, models, k>>
                 /\ Raise(168)
  /\ UNCHANGED <<output, console, scanVars, det_p_vals, s0_p_vals, new_p_vals,
                 xlo_p_vals, reflVars>>

\* --------------------------------------------------- simulated reflections
\* print "Reflections will be generated with the following geometry:" ...
PrintGeometry ==
  /\ pc = "print_geometry"
  /\ Echo(<<"geometry", models.dist, models.cells>>)
  /\ Goto("predict_obs")
  /\ UNCHANGED <<console, scanVars, paramVars, reflVars>>

\* A reflection as the ray predictor makes it: no crystal number (0 by
\* default), no image coordinate and no centroid yet.
Reflection(h) ==
  [hkl |-> h, crystal |-> 0, image_coord |-> NoVal, centroid |-> NoVal]

\* IndexGenerator(...).to_array() and ScansRayPredictor.predict for the two
\* experiments: one reflection for each generated index.
PredictObservations ==
  /\ pc = "predict_obs"
  /\ obs_refs1' = [h \in 1..MaxIdx |-> Reflection(h)]
  /\ obs_refs2' = [h \in 1..MaxIdx |-> Reflection(h)]
  /\ Echo(<<"excited", MaxIdx, MaxIdx>>)
  /\ Goto("ray_intersection")
  /\ UNCHANGED <<console, scanVars, paramVars, obs_refs, newVars, oldVars,
                 loopVars>>

\* The detector coordinate predicted for a reflection with the models as the
\* script built them (the unshifted geometry).
XCalc(crystal, h) == 1000 * crystal + 100 * h

\* How far the known parameter shifts move the spots of an experiment on the
\* detector: growing with the index, and for the second crystal either clear
\* of the first crystal's values or with one spot moved exactly as far as a
\* spot of the first crystal.
Patterns(crystal) == IF crystal = 0 THEN {"asc"} ELSE {"odd", "tie"}

Displacement(crystal, pat, h) ==
  CASE pat = "asc"  -> 2 * h
    [] pat = "odd"  -> 2 * h + 1
    [] pat = "tie"  -> IF h = 1 THEN 2 ELSE 2 * h + 1

\* ray_intersection(detector, refs): a new list of the reflections whose ray
\* meets the detector, each with its image coordinate.  Of the generated
\* reflections the last one may miss the detector.
RayIntersection(crystal, refs, n, pat) ==
  [m \in 1..n |->
     [refs[m] EXCEPT !.image_coord =
        XCalc(crystal, refs[m].hkl) - Displacement(crystal, pat, refs[m].hkl)]]

\* im_width = 0.1 * pi / 180.; var_x, var_y, var_phi; the two
\* ray_intersection calls.
IntersectRays ==
  /\ pc = "ray_intersection"
  /\ im_width' = WidthNominal
  /\ \E n1 \in {MaxIdx - 1, MaxIdx}, n2 \in {MaxIdx - 1, MaxIdx},
        pat1 \in Patterns(0), pat2 \in Patterns(1) :
        /\ obs_refs1' = RayIntersection(0, obs_refs1, n1, pat1)
        /\ obs_refs2' = RayIntersection(1, obs_refs2, n2, pat2)
  /\ Goto("set_obs")
  /\ UNCHANGED <<output, console, geometry, myscan, sweep_range, experiments,
                 paramVars, obs_refs, newVars, oldVars, loopVars>>

\* for ref in refs: ref.centroid_position = ref.image_coord_mm + (...);
\*                  ref.crystal = crystal
SetCentroids(refs, crystal) ==
  [m \in 1..Len(refs) |->
     [refs[m] EXCEPT !.centroid = refs[m].image_coord, !.crystal = crystal]]

SetObservations ==
  /\ pc = "set_obs"
  /\ obs_refs1' = SetCentroids(obs_refs1, 0)
  /\ obs_refs2' = SetCentroids(obs_refs2, 1)
  /\ Goto("concatenate")
  /\ UNCHANGED <<output, console, scanVars, paramVars, obs_refs, newVars,
                 oldVars, loopVars>>

\* print "Total number of observations made ..."
\* obs_refs = obs_refs1.concatenate(obs_refs2)
Concatenate ==
  /\ pc = "concatenate"
  /\ Echo(<<"observations", Len(obs_refs1), Len(obs_refs2)>>)
  /\ obs_refs' = obs_refs1 \o obs_refs2
  /\ Goto("undo_shifts")
  /\ UNCHANGED <<console, scanVars, paramVars, obs_refs1, obs_refs2, newVars,
                 oldVars, loopVars>>

\* ------------------------------------------------ undo the known shifts
\* One set_param_vals(saved) call on the parameterisation objects ps.
Restore(ps, name, saved) ==
  IF Len(saved) = NumFree(ps[name])
  THEN [ps EXCEPT ![name] = SetParamVals(@, saved)]
  ELSE ps

\* s0_param.set_param_vals(s0_p_vals)
\* det_param.set_param_vals(det_p_vals)
\* xl1o_param.set_param_vals(xlo_p_vals[0])
\* xl2o_param.set_param_vals(xlo_p_vals[1])
\* xl1uc_param.set_param_vals(xluc_p_vals[0])
\* xl2uc_param.set_param_vals(xluc_p_vals[1])
UndoShifts ==
  /\ pc = "undo_shifts"
  /\ LET p1 == Restore(params, "s0", heap[s0_p_vals])
         p2 == Restore(p1, "det", heap[det_p_vals])
         p3 == Restore(p2, "xl1o", heap[xlo_p_vals[1]])
         p4 == Restore(p3, "xl2o", heap[xlo_p_vals[2]])
         p5 == Restore(p4, "xl1uc", heap[xluc_p_vals[1]])
         p6 == Restore(p5, "xl2uc", heap[xluc_p_vals[2]])
     IN  /\ params' = p6
         /\ models' = [dist  |-> p6["det"].vals[1],
                       cells |-> << UcBackward(p6["xl1uc"].vals),
                                    UcBackward(p6["xl2uc"].vals) >>]
  /\ Goto("to_table")
  /\ UNCHANGED <<output, console, scanVars, heap, det_p_vals, s0_p_vals, p_vals,
                 new_p_vals, X, xlo_p_vals, xluc_p_vals, k, reflVars>>

\* ------------------------------------------------------ reflection tables
\* obs_refs.to_table(centroid_is_mm=True): one row for each reflection.  The
\* columns a table gets later hold NoVal until then.
ToTable(refs) ==
  [m \in 1..Len(refs) |->
     [hkl |-> refs[m].hkl, crystal |-> refs[m].crystal,
      x_obs |-> refs[m].centroid, x_resid |-> NoVal, used |-> FALSE,
      order |-> NoVal, dX_dp0 |-> NoVal, dY_dp0 |-> NoVal, dPhi_dp0 |-> NoVal]]

\* A copy that is only another name for the same table object.
ShallowName(ts, r) == <<ts, r>>

\* deepcopy(t): a new table object with the rows of t.
DeepCopy(ts, r) == <<Append(ts, ts[r]), Len(ts) + 1>>

\* reflections = obs_refs.to_table(centroid_is_mm=True)
\* old_reflections = deepcopy(reflections)
MakeTables ==
  /\ pc = "to_table"
  /\ LET made == <<Append(tabs, ToTable(obs_refs)), Len(tabs) + 1>>
         copy == DeepCopy(made[1], made[2])
     IN  /\ tabs' = copy[1]
         /\ reflections' = made[2]
         /\ old_reflections' = copy[2]
  /\ Goto("new_refman")
  /\ UNCHANGED <<output, console, scanVars, paramVars, obsVars, new_matches,
                 refman, dX_dp, dY_dp, dPhi_dp, oldVars, loopVars>>

\* refman = ReflectionManager(reflections, experiments, ...): the new manager
\* works on the table object it is given.
NewRefman ==
  /\ pc = "new_refman"
  /\ refman' = [NoManager EXCEPT !.table = reflections]
  /\ Goto("new_target")
  /\ UNCHANGED <<output, console, scanVars, paramVars, obsVars, tabs,
                 reflections, old_reflections, new_matches, dX_dp, dY_dp,
                 dPhi_dp, oldVars, loopVars>>

\* The free parameters of the prediction parameterisation built from
\* [det_param], [s0_param], [xl1o_param, xl2o_param], [xl1uc_param, xl2uc_param].
NumParams ==
  NumFree(params["det"]) + NumFree(params["s0"]) + NumFree(params["xl1o"])
  + NumFree(params["xl2o"]) + NumFree(params["xl1uc"]) + NumFree(params["xl2uc"])

\* new_pred_param = XYPhiPredictionParameterisation(...); print "NEW CLASSES";
\* new_target = LeastSquaresPositionalResidualWithRmsdCutoff(...)
NewTarget ==
  /\ pc = "new_target"
  /\ Echo(<<"NEW CLASSES">>)
  /\ Goto("new_predict")
  /\ UNCHANGED <<console, scanVars, paramVars, reflVars>>

\* The reflections a manager leaves out of its matches: none, or one of the
\* first or last RejectSpan rows of its table of n rows.
RejectChoices(n) ==
  {{}} \cup { {m} : m \in { q \in 1..n : q <= RejectSpan \/ q > n - RejectSpan } }

\* A predictor's residual for an observation row.
XResid(row) == XCalc(row.crystal, row.hkl) - row.x_obs

\* new_target.predict(): the manager's table gets the residuals and the flag
\* of the rows used in refinement.
PredictRows(rows, rejected) ==
  [m \in 1..Len(rows) |->
     [rows[m] EXCEPT !.x_resid = XResid(rows[m]), !.used = m \notin rejected]]

NewPredict ==
  /\ pc = "new_predict"
  /\ \E rejected \in RejectChoices(Len(tabs[refman.table])) :
        /\ tabs' = [tabs EXCEPT ![refman.table] = PredictRows(@, rejected)]
        /\ refman' = [refman EXCEPT !.rejected = rejected, !.predicted = TRUE]
  /\ Goto("finalise")
  /\ UNCHANGED <<output, console, scanVars, paramVars, obsVars, reflections,
                 old_reflections, new_matches, dX_dp, dY_dp, dPhi_dp, oldVars,
                 loopVars>>

IsUsed(row) == row.used

\* refman.get_matches(): a new table with the rows used in refinement.
GetMatches(ts, man) == SelectSeq(ts[man.table], IsUsed)

\* refman.finalise(); print "number of matches from new ...", len(...)
Finalise ==
  /\ pc = "finalise"
  /\ refman' = [refman EXCEPT !.finalised = TRUE]
  /\ Echo(<<"new matches", Len(GetMatches(tabs, refman))>>)
  /\ Goto("calc_gradients")
  /\ UNCHANGED <<console, scanVars, paramVars, obsVars, tabs, reflections,
                 old_reflections, new_matches, dX_dp, dY_dp, dPhi_dp, oldVars,
                 loopVars>>

\* The gradient of the predicted centroid (X, Y, Phi) of a reflection with
\* respect to parameter p (counted from 0), as the old target computes it.
OldGradient(row, p) ==
  LET base == 1000 * row.crystal + 100 * row.hkl + 2 * p
  IN  <<base, 10000 + base, 20000 + base>>

\* The same gradient as the new target computes it: equal to the old one up
\* to a rounding difference within the tolerance of approx_equal.
NewGradient(row, p) ==
  LET g == OldGradient(row, p)
      r == (row.hkl + p) % (Eps + 1)
  IN  <<g[1] + r, g[2] + r, g[3] + r>>

\* One component of calculate_gradients(): a list with one array for each
\* parameter, each array with one element for each row of the matches.
GradientArrays(rows, comp) ==
  [p \in 1..NumParams |-> [m \in 1..Len(rows) |-> NewGradient(rows[m], p - 1)[comp]]]

\* dX_dp, dY_dp, dPhi_dp = new_target.calculate_gradients()
CalcGradients ==
  /\ pc = "calc_gradients"
  /\ LET rows == GetMatches(tabs, refman)
     IN  /\ dX_dp' = GradientArrays(rows, 1)
         /\ dY_dp' = GradientArrays(rows, 2)
         /\ dPhi_dp' = GradientArrays(rows, 3)
  /\ Goto("assign_order")
  /\ UNCHANGED <<output, console, scanVars, paramVars, obsVars, tabs,
                 reflections, old_reflections, new_matches, refman, oldVars,
                 loopVars>>

\* new_matches['order'] = flex.size_t_range(len(new_matches))
\* new_matches['dX_dp0'] = dX_dp[0], and the same for dY_dp0 and dPhi_dp0
WithOrder(rows, gx, gy, gphi) ==
  [m \in 1..Len(rows) |->
     [rows[m] EXCEPT !.order = m - 1, !.dX_dp0 = gx[1][m],
                     !.dY_dp0 = gy[1][m], !.dPhi_dp0 = gphi[1][m]]]

\* new_matches = refman.get_matches()
AssignOrder ==
  /\ pc = "assign_order"
  /\ tabs' = Append(tabs, WithOrder(GetMatches(tabs, refman), dX_dp, dY_dp, dPhi_dp))
  /\ new_matches' = Len(tabs) + 1
  /\ Goto("old_setup")
  /\ UNCHANGED <<output, console, scanVars, paramVars, obsVars, reflections,
                 old_reflections, refman, dX_dp, dY_dp, dPhi_dp, oldVars,
                 loopVars>>

\* ----------------------------------------------------------- old classes
\* print "OLD CLASSES"; old_ref_predictor; old_pred_param;
\* print "BUILDING OLD STYLE REFLECTION MANAGER"
\* old_refman = OldReflectionManager(old_reflections, experiments, ...): the
\* old manager makes its own observation objects from the table's rows.
\* old_target = OldTarget(...)
OldSetup ==
  /\ pc = "old_setup"
  /\ Echo(<<"OLD CLASSES">>)
  /\ old_refman' = [NoManager EXCEPT !.table = old_reflections,
                                     !.obs = tabs[old_reflections]]
  /\ Goto("old_predict")
  /\ UNCHANGED <<console, scanVars, paramVars, obsVars, newVars, old_matches,
                 loopVars>>

\* print "OLD STYLE PREDICTION AND GRAD CALC"; old_target.predict()
OldPredict ==
  /\ pc = "old_predict"
  /\ Echo(<<"OLD STYLE PREDICTION AND GRAD CALC">>)
  /\ \E rejected \in RejectChoices(Len(old_refman.obs)) :
        old_refman' = [old_refman EXCEPT
                         !.obs = PredictRows(@, rejected),
                         !.rejected = rejected, !.predicted = TRUE]
  /\ Goto("old_matches")
  /\ UNCHANGED <<console, scanVars, paramVars, obsVars, newVars, old_matches,
                 loopVars>>

\* The same step with the two numbers of matches asserted equal.
OldMatchesCounted ==
  /\ pc = "old_matches"
  /\ old_matches' = SelectSeq(old_refman.obs, IsUsed)
  /\ Echo(<<"old matches", Len(old_matches')>>)
  /\ IF Len(old_matches') = Len(GetMatches(tabs, refman))
     THEN Goto("sort_new") ELSE Raise(336)
  /\ UNCHANGED <<console, scanVars, paramVars, obsVars, newVars, old_refman,
                 loopVars>>

\* old_matches = old_refman.get_matches(); print "number of matches ..."
OldMatches ==
  /\ pc = "old_matches"
  /\ old_matches' = SelectSeq(old_refman.obs, IsUsed)
  /\ Echo(<<"old matches", Len(old_matches')>>)
  /\ Goto("sort_new")
  /\ UNCHANGED <<console, scanVars, paramVars, obsVars, newVars, old_refman,
                 loopVars>>

\* ---------------------------------------------------------------- sorting
RECURSIVE InsertAfter(_, _)
InsertAfter(s, x) ==
  IF s = <<>> THEN <<x>>
  ELSE IF Head(s).x_resid <= x.x_resid
       THEN <<Head(s)>> \o InsertAfter(Tail(s), x)
       ELSE <<x>> \o s

RECURSIVE SortPrefix(_, _)
SortPrefix(s, n) ==
  IF n = 0 THEN <<>> ELSE InsertAfter(SortPrefix(s, n - 1), s[n])

\* sorted(xs, key=lambda e: e.x_resid): ascending and stable.
StableSort(s) == SortPrefix(s, Len(s))

Swap(s, p) == [s EXCEPT ![p] = s[p + 1], ![p + 1] = s[p]]

RECURSIVE ApplySwaps(_, _, _)
ApplySwaps(s, K, p) ==
  IF p >= Len(s) THEN s
  ELSE ApplySwaps(IF p \in K THEN Swap(s, p) ELSE s, K, p + 1)

TiedPositions(s) == { p \in 1..(Len(s) - 1) : s[p].x_resid = s[p + 1].x_resid }

\* table.sort('x_resid'): the rows in ascending order of the column, rows of
\* equal value in an order the table does not promise.
SortOutcomes(rows) ==
  LET s == StableSort(rows)
  IN  { ApplySwaps(s, K, 1) : K \in SUBSET TiedPositions(s) }

\* new_matches.sort('x_resid')
SortNew ==
  /\ pc = "sort_new"
  /\ \E s \in SortOutcomes(tabs[new_matches]) :
        tabs' = [tabs EXCEPT ![new_matches] = s]
  /\ Goto("select")
  /\ UNCHANGED <<output, console, scanVars, paramVars, obsVars, reflections,
                 old_reflections, new_matches, refman, dX_dp, dY_dp, dPhi_dp,
                 oldVars, loopVars>>

\* A select that leaves the array as it is.
SelectNothing(a, order) == a

\* a.select(order): the elements of a at the positions order names (from 0).
Select(a, order) == [m \in 1..Len(order) |-> a[order[m] + 1]]

Column(rows) == [m \in 1..Len(rows) |-> rows[m].order]

SelectAll(arrays, order) == [p \in 1..Len(arrays) |-> Select(arrays[p], order)]

\* for i in range(len(dX_dp)):
\*   dX_dp[i] = dX_dp[i].select(new_matches['order']), and dY_dp, dPhi_dp
SelectGradients ==
  /\ pc = "select"
  /\ LET order == Column(tabs[new_matches])
     IN  /\ dX_dp' = SelectAll(dX_dp, order)
         /\ dY_dp' = SelectAll(dY_dp, order)
         /\ dPhi_dp' = SelectAll(dPhi_dp, order)
  /\ i' = IF Len(dX_dp) > 0 THEN Len(dX_dp) - 1 ELSE i
  /\ Goto("sort_old")
  /\ UNCHANGED <<output, console, scanVars, paramVars, obsVars, tabs,
                 reflections, old_reflections, new_matches, refman, oldVars,
                 j, it>>

\* old_matches = sorted(old_matches, key=lambda e: e.x_resid)
SortOld ==
  /\ pc = "sort_old"
  /\ old_matches' = StableSort(old_matches)
  /\ Goto("print_rows")
  /\ UNCHANGED <<output, console, scanVars, paramVars, obsVars, newVars,
                 old_refman, loopVars>>

\* ------------------------------------------------------- the gradient test
RECURSIVE RowLines(_, _)
RowLines(from, to) ==
  IF from >= to THEN <<>> ELSE << <<"row", from>> >> \o RowLines(from + 1, to)

\* for i in range(10): print new_matches[i]['miller_index'], ...,
\*                           old_matches[i].miller_index, ...
\* Indexing past the end of either raises IndexError.
PrintTenRows ==
  /\ pc = "print_rows"
  /\ LET n == Min(Len(tabs[new_matches]), Len(old_matches))
     IN  IF n >= PrintRows
         THEN /\ output' = output \o RowLines(0, PrintRows)
                           \o << <<"TESTING GRADIENTS">> >>
              /\ i' = PrintRows - 1
              /\ it' = 0
              /\ Goto("test")
         ELSE /\ output' = output \o RowLines(0, n)
              /\ i' = n
              /\ it' = it
              /\ Raise(349)
  /\ UNCHANGED <<console, scanVars, paramVars, obsVars, newVars, oldVars, j>>

Component(comp) == CASE comp = 1 -> dX_dp [] comp = 2 -> dY_dp [] OTHER -> dPhi_dp

\* approx_equal(dX_dp[j][i], old_matches[i].gradients[j][0]), and the same
\* for dY_dp with [1] and dPhi_dp with [2]; row and p count from 0.
Agree(row, p, comp) ==
  approx_equal(Component(comp)[p + 1][row + 1],
               OldGradient(old_matches[row + 1], p)[comp])

\* The asserts of one row that do not hold, each as 3 * j + component - 1.
Mismatches(row) ==
  { n \in 0..(3 * NumParams - 1) : ~Agree(row, n \div 3, (n % 3) + 1) }

Least(S) == CHOOSE x \in S : \A y \in S : x <= y

\* for i in range(len(new_matches)):
\*   for j in range(len(dX_dp)):
\*     assert approx_equal(dX_dp[j][i], old_matches[i].gradients[j][0])
\*     assert approx_equal(dY_dp[j][i], old_matches[i].gradients[j][1])
\*     assert approx_equal(dPhi_dp[j][i], old_matches[i].gradients[j][2])
\* One step runs the inner loop for one row, up to the first assert that
\* fails; old_matches[i] past the end of the list raises IndexError.
TestRow ==
  /\ pc = "test"
  /\ IF it >= Len(tabs[new_matches])
     THEN /\ Goto("print_ok")
          /\ UNCHANGED loopVars
     ELSE /\ i' = it
          /\ IF NumParams = 0
             THEN /\ Goto("test") /\ j' = j /\ it' = it + 1
             ELSE IF it >= Len(old_matches)
             THEN /\ Raise(359) /\ j' = 0 /\ it' = it
             ELSE IF Mismatches(it) = {}
             THEN /\ Goto("test") /\ j' = NumParams - 1 /\ it' = it + 1
             ELSE /\ Raise(359 + (Least(Mismatches(it)) % 3))
                  /\ j' = Least(Mismatches(it)) \div 3
                  /\ it' = it
  /\ UNCHANGED <<output, console, scanVars, paramVars, obsVars, newVars, oldVars>>

\* print "OK"
PrintOK ==
  /\ pc = "print_ok"
  /\ Echo(<<"OK">>)
  /\ Goto("console")
  /\ UNCHANGED <<console, scanVars, paramVars, reflVars>>

\* from dials.util.command_line import interactive_console; interactive_console()
\* The console reads the user's lines until the user ends the input.
ConsoleLine ==
  /\ pc = "console"
  /\ console < MaxConsoleLines
  /\ console' = console + 1
  /\ UNCHANGED <<pc, exc, output, scanVars, paramVars, reflVars>>

ConsoleExit ==
  /\ pc = "console"
  /\ Goto("done")
  /\ UNCHANGED <<output, console, scanVars, paramVars, reflVars>>

Next ==
  \/ MakeScan \/ AssertSweep \/ AssertWidth \/ BuildExperiments
  \/ AssertDetectors \/ Parameterise
  \/ ShiftDetector \/ ShiftBeam \/ ShiftOrientation \/ ShiftUnitCell
  \/ PrintGeometry \/ PredictObservations \/ IntersectRays
  \/ SetObservations \/ Concatenate \/ UndoShifts
  \/ MakeTables \/ NewRefman \/ NewTarget \/ NewPredict \/ Finalise
  \/ CalcGradients \/ AssignOrder
  \/ OldSetup \/ OldPredict \/ OldMatches
  \/ SortNew \/ SelectGradients \/ SortOld
  \/ PrintTenRows \/ TestRow \/ PrintOK \/ ConsoleLine \/ ConsoleExit

Spec == Init /\ [][Next]_vars

\* ================================================================= claims
OKPrinted == \E n \in 1..Len(output) : output[n][1] = "OK"

NewRows == IF new_matches = 0 THEN <<>> ELSE tabs[new_matches]

SameReflection(a, b) == a.hkl = b.hkl /\ a.crystal = b.crystal

\* The statement a raised exception came from, as a stage of the script.
AfterSelect ==
  \/ pc \in {"sort_old", "print_rows", "test", "print_ok", "console", "done"}
  \/ pc = "raised" /\ exc >= 349

\* The rows whose gradients the test has compared so far.
ComparedRows ==
  IF pc \in {"test", "print_ok", "console", "done"} THEN 0..(it - 1)
  ELSE IF pc = "raised" /\ exc >= 359 /\ i < Len(old_matches) THEN 0..i
  ELSE {}

\* C1 (as claimed): on every run that reaches the gradient test, every row i
\* of the new matches has an old match at index i, and for every parameter j
\* the three new gradient components are approximately equal to the old ones.
C1_AllGradientsAgree ==
  pc = "test" =>
    \A row \in 0..(Len(NewRows) - 1) :
       /\ row < Len(old_matches)
       /\ \A p \in 0..(NumParams - 1), c \in 1..3 : Agree(row, p, c)

\* C3: OK is printed only after every assertion has passed; an unmet
\* assertion raises at that statement; after an exception no step runs, OK is
\* not printed, and the pair (i, j) at which a gradient assert failed is the
\* first pair that disagrees, so no later pair was compared.
AllAssertionsHeld ==
  /\ myscan.hi = PiMicro
  /\ approx_equal(myscan.width, WidthNominal)
  /\ Cardinality(Detectors(experiments)) = 1
  /\ \A row \in 0..(Len(NewRows) - 1) :
        row < Len(old_matches) /\ Mismatches(row) = {}

UnmetAssertion ==
  \/ pc = "assert_sweep" /\ sweep_range # <<0, PiMicro>>
  \/ pc = "assert_width" /\ ~approx_equal(im_width, WidthNominal)
  \/ pc = "assert_detectors" /\ Cardinality(Detectors(experiments)) # 1
  \/ /\ pc = "test" /\ it < Len(NewRows) /\ it < Len(old_matches)
     /\ Mismatches(it) # {}

FailedAtFirstMismatch ==
  (pc = "raised" /\ exc >= 359 /\ i < Len(old_matches)) =>
     /\ it = i
     /\ \A row \in 0..(i - 1) : Mismatches(row) = {}
     /\ Mismatches(i) # {}
     /\ 3 * j + (exc - 359) = Least(Mismatches(i))

C3_AssertionStops ==
  /\ [](OKPrinted => AllAssertionsHeld)
  /\ [](pc = "raised" => ~OKPrinted)
  /\ []FailedAtFirstMismatch
  /\ [][pc # "raised"]_vars
  /\ [][UnmetAssertion => (pc' = "raised" /\ output' = output)]_vars

C3_Witness ==
  /\ pc = "raised" /\ exc = 359 /\ i >= 1 /\ i < Len(old_matches)
  /\ myscan.hi = PiMicro

\* C4: the numbers of matches are printed and never compared: the step that
\* prints the old count always goes on to the sort, the test examines rows of
\* new_matches only, a row that agrees moves the test to the next row, and
\* after the last row of new_matches the script goes on to print OK, however
\* many old matches there are.
C4_CountsNeverCompared ==
  /\ [](ComparedRows \subseteq 0..(Len(NewRows) - 1))
  /\ [][pc = "old_matches" => pc' = "sort_new"]_vars
  /\ [][(pc = "test" /\ it < Len(NewRows) /\ it < Len(old_matches)
          /\ Mismatches(it) = {}) => (pc' = "test" /\ it' = it + 1)]_vars
  /\ [][(pc = "test" /\ it >= Len(NewRows)) => pc' = "print_ok"]_vars

C4_Witness ==
  /\ OKPrinted
  /\ Len(old_matches) > Len(NewRows)
  /\ ComparedRows = 0..(Len(NewRows) - 1)

\* C5 (as claimed): once OK is printed the script has ended: it is not
\* waiting for input and takes no further action.
C5_EndsAfterOK == OKPrinted => (pc = "done" /\ console = 0)

\* C6: when either pipeline is constructed, each of the six parameterisations
\* holds the vector get_param_vals read from it before its shift, and the
\* saved vector still is that vector.
SavedRef(n) ==
  CASE n = "det"   -> det_p_vals
    [] n = "s0"    -> s0_p_vals
    [] n = "xl1o"  -> xlo_p_vals[1]
    [] n = "xl2o"  -> xlo_p_vals[2]
    [] n = "xl1uc" -> xluc_p_vals[1]
    [] n = "xl2uc" -> xluc_p_vals[2]

C6_RoundTrip ==
  pc \in {"new_refman", "new_target", "old_setup"} =>
    \A n \in ParamNames :
       /\ params[n] = Parameterisations(geometry)[n]
       /\ heap[SavedRef(n)] = GetParamVals(Parameterisations(geometry)[n])

C6_Witness ==
  /\ pc = "old_setup"
  /\ heap[p_vals] # heap[X]
  /\ heap[new_p_vals] # heap[xlo_p_vals[2]]
  /\ GetParamVals(params["xl2uc"]) = heap[xluc_p_vals[2]]

\* C7.  After the shifts, a parameterisation holds the vector last passed to
\* its set_param_vals.
ShiftedBy(n, shifts) ==
  LET v == GetParamVals(params[n])
      saved == heap[SavedRef(n)]
  IN  /\ Len(v) = Len(saved)
      /\ Len(shifts) = Len(saved)
      /\ \A m \in 1..Len(saved) : v[m] = saved[m] + shifts[m]

AdditiveShifts ==
  /\ ShiftedBy("det", <<2, 2, 2, 5, 5, 5>>)
  /\ ShiftedBy("s0", <<2>>)
  /\ ShiftedBy("xl1o", <<2, 2, 2>>)
  /\ ShiftedBy("xl2o", <<2, 2, 2>>)

Offsets(n) ==
  [m \in 1..Len(heap[SavedRef(n)]) |->
     GetParamVals(params[n])[m] - heap[SavedRef(n)][m]]

\* C7 (as claimed): every vector, the unit-cell vectors included, is the
\* vector read plus a fixed offset: the same offset for both crystals.
C7_FixedOffsets ==
  pc = "print_geometry" =>
    /\ AdditiveShifts
    /\ Len(GetParamVals(params["xl1uc"])) = Len(heap[SavedRef("xl1uc")])
    /\ Len(GetParamVals(params["xl2uc"])) = Len(heap[SavedRef("xl2uc")])
    /\ Offsets("xl1uc") = Offsets("xl2uc")

CellPlus(c) == <<c[1] + 1, c[2] + 1, c[3] + 1, c[4], c[5], c[6] + 1>>

\* C7 (amended): the detector, beam and orientation vectors are the vectors
\* read plus the fixed offsets; for a unit cell the fixed offsets are added
\* to the six cell parameters, and the vector passed, of the length of the
\* vector read, is the parameter vector of the shifted cell.
C7_ShiftsApplied ==
  pc = "print_geometry" =>
    /\ AdditiveShifts
    /\ \A c \in 1..2 :
          LET n == XlucName(c)
          IN  /\ Len(GetParamVals(params[n])) = Len(heap[SavedRef(n)])
              /\ heap[SavedRef(n)] = UcForward(geometry.cells[c])
              /\ GetParamVals(params[n]) = UcForward(CellPlus(geometry.cells[c]))
              /\ models.cells[c] = CellPlus(geometry.cells[c])

C7_Witness ==
  /\ pc = "print_geometry"
  /\ geometry.cells[1] # geometry.cells[2]
  /\ Offsets("xl1uc") # Offsets("xl2uc")

\* C8: after the sort the order column is a permutation of 0..n-1 that names,
\* for each row, the row's place before the sort; after the select, element
\* i of each gradient array is the gradient calculate_gradients gave for the
\* reflection at row i of the sorted new_matches.
OrderTracksRows ==
  LET rows == NewRows
      before == GetMatches(tabs, refman)
  IN  /\ Len(rows) = Len(before)
      /\ { rows[m].order : m \in 1..Len(rows) } = 0..(Len(rows) - 1)
      /\ \A m \in 1..Len(rows) : SameReflection(rows[m], before[rows[m].order + 1])

GradientsFollowRows ==
  \A p \in 1..NumParams :
     /\ Len(dX_dp[p]) = Len(NewRows)
     /\ \A m \in 1..Len(NewRows) :
          /\ dX_dp[p][m] = NewGradient(NewRows[m], p - 1)[1]
          /\ dY_dp[p][m] = NewGradient(NewRows[m], p - 1)[2]
          /\ dPhi_dp[p][m] = NewGradient(NewRows[m], p - 1)[3]

C8_SelectFollowsSort ==
  /\ (pc = "select" \/ AfterSelect) => OrderTracksRows
  /\ AfterSelect => (Len(dX_dp) = NumParams /\ GradientsFollowRows)

C8_Witness ==
  /\ pc = "sort_old"
  /\ \E m \in 1..Len(NewRows) : NewRows[m].order # m - 1

\* C9 (as claimed): every row the gradient test compares holds the same
\* reflection in the sorted new_matches and in the sorted old_matches.
C9_RowsAligned ==
  \A row \in ComparedRows :
     SameReflection(NewRows[row + 1], old_matches[row + 1])

\* C10: from the deep copy on, old_reflections is another object than the
\* new pipeline's table and holds the table obs_refs.to_table made, whatever
\* the new pipeline does; the old manager is built from that table.
C10_OldInputIsolated ==
  /\ old_reflections # 0 =>
        /\ old_reflections # reflections
        /\ tabs[old_reflections] = ToTable(obs_refs)
  /\ pc = "old_predict" =>
        /\ old_refman.table = old_reflections
        /\ old_refman.obs = ToTable(obs_refs)

C10_Witness ==
  /\ pc = "print_rows"
  /\ tabs[reflections] # ToTable(obs_refs)
  /\ tabs[new_matches] # GetMatches(tabs, refman)
  /\ old_refman.predicted

====
